---- MODULE Spec2Model ----
(***************************************************************************)
(* News ingestion and AI synthesis pipeline of true-ai-builders.           *)
(*                                                                         *)
(* NewsService (services/news.ts) fetches articles from GNews, formats     *)
(* them into a prompt and drives two chat-completion calls; main()         *)
(* (index.ts) sequences scrapeNews -> generateSummary -> generateQuestions *)
(* inside one try/catch.                                                   *)
(*                                                                         *)
(* Text is modelled as sequences of one-character strings, so that         *)
(* stripping, trimming, formatting and concatenation are computed          *)
(* character by character as the JavaScript does.                          *)
(***************************************************************************)
EXTENDS Integers, Sequences, FiniteSets, TLC

VARIABLES
    \* --- the pipeline runs (index.ts main, one entry per run) ---
    env,        \* process.env: the two credentials
    pc,         \* run -> position of main() (the await it is suspended at)
    svc,        \* run -> fields of the run's NewsService instance
    articles,   \* run -> const articles   (index.ts:19)
    summaryRes, \* run -> const summary    (index.ts:20)
    questions,  \* run -> const questions  (index.ts:21)
    output,     \* run -> what logger.info(output) emitted (index.ts:29)
    exitCode,   \* run -> code given to process.exit (index.ts:35)
    logs,       \* run -> sequence of logger / console lines
    events,     \* run -> sequence of <<"issue"|"settle", call>>
    calls,      \* run -> sequence of the requests sent to external services
    fetchIn,    \* run -> what the news API answered to this run
    sumIn,      \* run -> what the model answered to the summary call
    qIn,        \* run -> what the model answered to the questions call
    \* --- content normalisation applied to one string ---
    nIn, nOnce, nTwice, nStage,
    \* --- response mapping and prompt formatting applied to one response ---
    fResp, fBatch, fText, fStage,
    \* --- the reading of one chat-completion answer by both generators ---
    cIn, cSummary, cQuestions, cStage

pipeVars == <<env, pc, svc, articles, summaryRes, questions, output, exitCode,
              logs, events, calls, fetchIn, sumIn, qIn>>
normVars == <<nIn, nOnce, nTwice, nStage>>
fmtVars == <<fResp, fBatch, fText, fStage>>
compVars == <<cIn, cSummary, cQuestions, cStage>>
vars == <<pipeVars, normVars, fmtVars, compVars>>

----------------------------------------------------------------------------
(* Bounds of the model.                                                    *)

\* content strings are concatenations of at most MaxPieces pieces
MaxPieces == 3
\* API responses of the formatting specification carry at most MaxArticles records
MaxArticles == 2
\* completion contents are strings of at most MaxContentLen characters
MaxContentLen == 3

----------------------------------------------------------------------------
(* JavaScript values: a string, null or undefined.                         *)

Str(s) == [t |-> "string", s |-> s]
JsNull == [t |-> "null", s |-> <<>>]
JsUndefined == [t |-> "undefined", s |-> <<>>]

\* `${v}` inside a template literal
TemplateStr(v) ==
    CASE v.t = "string" -> v.s
      [] v.t = "null" -> <<"n", "u", "l", "l">>
      [] OTHER -> <<"u", "n", "d", "e", "f", "i", "n", "e", "d">>

\* v || ''  for a string-or-nullish v
OrEmpty(v) == IF v.t = "string" THEN v.s ELSE <<>>

\* characters matched by \s and \d (those the model's texts use)
Whitespace == {" ", "\n", "\t"}
Digits == {"0", "1", "2", "3", "4", "5", "6", "7", "8", "9"}

AllIn(s, lo, hi, S) == \A j \in lo..hi : s[j] \in S

CharsTail == <<"c", "h", "a", "r", "s", "]">>

\* the suffix of s starting at i matches  \s*\[\d+\s*chars\]$  as a whole
MatchesAt(s, i) ==
    LET n == Len(s) IN
    /\ n - i + 1 >= 8
    /\ SubSeq(s, n - 5, n) = CharsTail
    /\ \E p \in i..(n - 7) :
          /\ AllIn(s, i, p - 1, Whitespace)
          /\ s[p] = "["
          /\ \E q \in (p + 1)..(n - 6) :
                /\ AllIn(s, p + 1, q, Digits)
                /\ AllIn(s, q + 1, n - 6, Whitespace)

\* a mis-written pattern loop: strips every trailing marker, not only the last
RECURSIVE StripAllMarkers(_)
StripAllMarkers(s) ==
    LET starts == {i \in 1..Len(s) : MatchesAt(s, i)} IN
    IF starts = {} THEN s
    ELSE StripAllMarkers(SubSeq(s, 1,
             (CHOOSE i \in starts : \A j \in starts : i <= j) - 1))

\* s.replace(/\s*\[\d+\s*chars\]$/, ''): the leftmost match is replaced once
StripMarker(s) ==
    LET starts == {i \in 1..Len(s) : MatchesAt(s, i)} IN
    IF starts = {} THEN s
    ELSE SubSeq(s, 1, (CHOOSE i \in starts : \A j \in starts : i <= j) - 1)

\* (article.content || '').replace(...)
NormalizeContent(v) == StripMarker(OrEmpty(v))

\* String.prototype.trim
RECURSIVE TrimLeft(_)
TrimLeft(s) ==
    IF s # <<>> /\ Head(s) \in Whitespace THEN TrimLeft(Tail(s)) ELSE s

RECURSIVE TrimRight(_)
TrimRight(s) ==
    IF s # <<>> /\ s[Len(s)] \in Whitespace
    THEN TrimRight(SubSeq(s, 1, Len(s) - 1)) ELSE s

Trim(s) == TrimRight(TrimLeft(s))

\* decimal rendering of a non-negative integer inside a template literal
DigitChar(d) == <<"0", "1", "2", "3", "4", "5", "6", "7", "8", "9">>[d + 1]

RECURSIVE DecStr(_)
DecStr(n) ==
    IF n < 10 THEN <<DigitChar(n)>>
    ELSE DecStr(n \div 10) \o <<DigitChar(n % 10)>>

----------------------------------------------------------------------------
(* scrapeNews: mapping of the response body.                               *)

\* one raw record -> { title, description, content }
MapArticle(raw) ==
    [title |-> raw.title,
     description |-> raw.description,
     content |-> Str(NormalizeContent(raw.content))]

\* data.articles?.map(...) || []   (arr is the array, or JsUndefined)
MapArticles(arr) ==
    IF arr.t = "undefined" THEN <<>>
    ELSE [k \in 1..Len(arr.s) |-> MapArticle(arr.s[k])]

----------------------------------------------------------------------------
(* generateSummary: the prompt body.                                       *)

\* a block numbered from zero: the index is used without the + 1
ArticleBlockZeroBased(article, index) ==
    <<"[">> \o DecStr(index) \o <<"]", " ">>
        \o TemplateStr(article.title) \o <<"\n">>
        \o TemplateStr(article.description) \o <<"\n">>
        \o TemplateStr(article.content)

\* `[${index + 1}] ${article.title}\n${article.description}\n${article.content}`
\* (index is the 0-based index Array.prototype.map passes)
ArticleBlock(article, index) ==
    <<"[">> \o DecStr(index + 1) \o <<"]", " ">>
        \o TemplateStr(article.title) \o <<"\n">>
        \o TemplateStr(article.description) \o <<"\n">>
        \o TemplateStr(article.content)

\* Array.prototype.join(sep)
RECURSIVE Join(_, _)
Join(parts, sep) ==
    IF parts = <<>> THEN <<>>
    ELSE IF Len(parts) = 1 THEN parts[1]
    ELSE parts[1] \o sep \o Join(Tail(parts), sep)

\* articles.map((article, index) => ...).join('\n\n')
ArticlesText(batch) ==
    Join([k \in 1..Len(batch) |-> ArticleBlock(batch[k], k - 1)], <<"\n", "\n">>)

----------------------------------------------------------------------------
(* Inputs of the two pure-function specifications.                         *)

Marker1 == <<"[", "4", " ", "c", "h", "a", "r", "s", "]">>
Marker2 == <<"[", "4", "2", "c", "h", "a", "r", "s", "]">>
NoDigits == <<"[", "c", "h", "a", "r", "s", "]">>
Singular == <<"[", "4", " ", "c", "h", "a", "r", "]">>

Pieces == {<<"a">>, <<" ">>, <<"\n">>, <<"]">>, Marker1, Marker2, NoDigits, Singular}

RECURSIVE PieceStrings(_)
PieceStrings(n) ==
    IF n = 0 THEN {<<>>}
    ELSE LET shorter == PieceStrings(n - 1) IN
         shorter \cup {s \o p : s \in shorter, p \in Pieces}

ContentValues == {JsNull} \cup {Str(s) : s \in PieceStrings(MaxPieces)}

RawTitles == {Str(<<"T">>), Str(<<"U">>)}
RawDescriptions == {Str(<<"d">>), JsNull}
RawContents == {Str(<<"c">>), Str(<<"c", " ">> \o Marker1), JsNull}

RawArticles ==
    [title : RawTitles, description : RawDescriptions, content : RawContents]

Array(s) == [t |-> "array", s |-> s]

RECURSIVE ArraysUpTo(_)
ArraysUpTo(n) ==
    IF n = 0 THEN {<<>>}
    ELSE LET shorter == ArraysUpTo(n - 1) IN
         shorter \cup {Append(s, a) : s \in shorter, a \in RawArticles}

\* the `articles` member of a parsed response body: an array or absent
ArticleArrays == {JsUndefined} \cup {Array(s) : s \in ArraysUpTo(MaxArticles)}

----------------------------------------------------------------------------
(* Initial values of the three groups of variables.                        *)

Runs == {"r1", "r2"}

None == [t |-> "none", s |-> <<>>]

PipeIdle(e) ==
    /\ env = e
    /\ pc = [r \in Runs |-> "start"]
    /\ svc = [r \in Runs |-> None]
    /\ articles = [r \in Runs |-> None]
    /\ summaryRes = [r \in Runs |-> None]
    /\ questions = [r \in Runs |-> None]
    /\ output = [r \in Runs |-> None]
    /\ exitCode = [r \in Runs |-> None]
    /\ logs = [r \in Runs |-> <<>>]
    /\ events = [r \in Runs |-> <<>>]
    /\ calls = [r \in Runs |-> <<>>]
    /\ fetchIn = [r \in Runs |-> [kind |-> "none", data |-> None]]
    /\ sumIn = [r \in Runs |-> [kind |-> "none", content |-> JsUndefined]]
    /\ qIn = [r \in Runs |-> [kind |-> "none", content |-> JsUndefined]]

NoEnv == [GNEWS_API_KEY |-> JsUndefined, OPENAI_API_KEY |-> JsUndefined]

NormIdle ==
    /\ nIn = JsNull
    /\ nOnce = <<>>
    /\ nTwice = <<>>
    /\ nStage = "idle"

FmtIdle ==
    /\ fResp = JsUndefined
    /\ fBatch = <<>>
    /\ fText = <<>>
    /\ fStage = "idle"

CompIdle ==
    /\ cIn = [kind |-> "none", content |-> JsUndefined]
    /\ cSummary = [threw |-> FALSE, value |-> None]
    /\ cQuestions = [threw |-> FALSE, value |-> <<>>]
    /\ cStage = "idle"

----------------------------------------------------------------------------
(* Content normalisation applied once and then again to its own result.    *)

NormInit ==
    /\ nIn \in ContentValues
    /\ nOnce = <<>>
    /\ nTwice = <<>>
    /\ nStage = "input"
    /\ PipeIdle(NoEnv)
    /\ FmtIdle
    /\ CompIdle

NormalizeOnce ==
    /\ nStage = "input"
    /\ nOnce' = NormalizeContent(nIn)
    /\ nStage' = "once"
    /\ UNCHANGED <<nIn, nTwice, pipeVars, fmtVars, compVars>>

NormalizeTwice ==
    /\ nStage = "once"
    /\ nTwice' = NormalizeContent(Str(nOnce))
    /\ nStage' = "twice"
    /\ UNCHANGED <<nIn, nOnce, pipeVars, fmtVars, compVars>>

NormNext == NormalizeOnce \/ NormalizeTwice

SpecNormalize == NormInit /\ [][NormNext]_vars

----------------------------------------------------------------------------
(* Response mapping followed by prompt formatting.                         *)

FmtInit ==
    /\ fResp \in ArticleArrays
    /\ fBatch = <<>>
    /\ fText = <<>>
    /\ fStage = "response"
    /\ PipeIdle(NoEnv)
    /\ NormIdle
    /\ CompIdle

MapResponse ==
    /\ fStage = "response"
    /\ fBatch' = MapArticles(fResp)
    /\ fStage' = "mapped"
    /\ UNCHANGED <<fResp, fText, pipeVars, normVars, compVars>>

FormatBatch ==
    /\ fStage = "mapped"
    /\ fText' = ArticlesText(fBatch)
    /\ fStage' = "formatted"
    /\ UNCHANGED <<fResp, fBatch, pipeVars, normVars, compVars>>

FmtNext == MapResponse \/ FormatBatch

SpecFormat == FmtInit /\ [][FmtNext]_vars

----------------------------------------------------------------------------
(* The pipeline: main() of index.ts over the NewsService methods.          *)
(* A run is one invocation of main(); it constructs its own NewsService    *)
(* and is suspended at one await at a time.  Runs interleave at awaits.    *)

Upd(f, r, v) == [f EXCEPT ![r] = v]

LogLine(level, msg, arg) == [level |-> level, msg |-> msg, arg |-> arg]

ExitCode(c) == [t |-> "exit", s |-> c]

\* what an async function hands to the await on it
Returned(v) == [threw |-> FALSE, value |-> v]
Threw == [threw |-> TRUE, value |-> <<>>]

EnvValues == {JsUndefined, Str(<<"k">>)}
Envs == [GNEWS_API_KEY : EnvValues, OPENAI_API_KEY : EnvValues]

\* --- NewsService.constructor ---

\* !v
Falsy(v) ==
    CASE v.t = "object" -> FALSE
      [] v.t = "string" -> v.s = <<>>
      [] OTHER -> TRUE

ConstructService(e) ==
    [t |-> "object",
     gnewsApiKey |-> Str(OrEmpty(e.GNEWS_API_KEY)),
     openai |-> [t |-> "object", apiKey |-> e.OPENAI_API_KEY]]

ConstructorLogs(service) ==
    << IF Falsy(service.gnewsApiKey)
       THEN LogLine("warn", "GNEWS_API_KEY not found in environment variables", <<>>)
       ELSE LogLine("info", "News service initialized with GNews API key", <<>>),
       IF Falsy(service.openai)
       THEN LogLine("warn", "OPENAI_API_KEY not found in environment variables", <<>>)
       ELSE LogLine("info", "News service initialized with OPENAI API key", <<>>) >>

\* new OpenAI({ apiKey }) is library code: given no key it may reject its
\* options, so both outcomes are kept when the key is absent
ClientMayThrow(e) == e.OPENAI_API_KEY.t # "string"

\* --- requests sent to the external services ---

FetchRequest(service) ==
    [call |-> "fetch", model |-> "", system |-> "q=AI OR artificial intelligence&lang=en&max=10",
     user |-> <<>>, temperature |-> "", apikey |-> service.gnewsApiKey]

SummaryRequest(service, articlesText) ==
    [call |-> "summary", model |-> "gpt-4o", system |-> "summarySystemPrompt",
     user |-> articlesText, temperature |-> "0.4", apikey |-> service.openai.apiKey]

PromptArticlesLabel ==
    <<"\n", " ", " ", " ", " ", "O", "r", "i", "g", "i", "n", "a", "l",
      " ", "a", "r", "t", "i", "c", "l", "e", "s", ":", " ">>
PromptSummaryLabel ==
    <<"\n", " ", " ", " ", " ", "S", "u", "m", "m", "a", "r", "y", ":",
      " ">>
PromptEnd ==
    <<"\n", " ", " ", " ", " ">>

\* number of questions calls already issued by any run
QuestionsCallsSoFar == Cardinality({q \in DOMAIN calls : Len(calls[q]) >= 3})

\* a prompt that also carries a call counter kept between calls
QuestionsUserPromptCounting(summary) ==
    PromptArticlesLabel \o summary.articlesText
        \o PromptSummaryLabel \o summary.summaryText
        \o PromptEnd \o DecStr(QuestionsCallsSoFar)

\* questionsUserPrompt of generateQuestions
QuestionsUserPrompt(summary) ==
    PromptArticlesLabel \o summary.articlesText
        \o PromptSummaryLabel \o summary.summaryText
        \o PromptEnd

QuestionsRequest(service, summary) ==
    [call |-> "questions", model |-> "gpt-4o", system |-> "questionsSystemPrompt",
     user |-> QuestionsUserPrompt(summary), temperature |-> "0.5",
     apikey |-> service.openai.apiKey]

\* --- scrapeNews ---

\* answers of the news API: the request rejects, the status is not ok, reading
\* the body rejects, or the body parses to `data`
FetchFailure(kind) == [kind |-> kind, data |-> None]
JsonBody(data) == [kind |-> "json", data |-> data]
BodyObject(arr) == [t |-> "object", articles |-> arr]

PipeArticle1 == [title |-> Str(<<"T">>), description |-> Str(<<"d">>),
                 content |-> Str(<<"c", " ">> \o Marker1)]
PipeArticle2 == [title |-> Str(<<"U">>), description |-> JsNull, content |-> JsNull]

HeaderOutcomes == {"neterr", "status", "ok"}

BodyOutcomes ==
    {FetchFailure("bodyerr"),
     JsonBody(JsNull),
     JsonBody(BodyObject(JsUndefined)),
     JsonBody(BodyObject(Array(<<>>))),
     JsonBody(BodyObject(Array(<<PipeArticle1>>))),
     JsonBody(BodyObject(Array(<<PipeArticle1, PipeArticle2>>)))}

\* data.articles?.length || 0
FoundCount(data) ==
    IF data.articles.t = "array" THEN Len(data.articles.s) ELSE 0

\* the try block of scrapeNews, given the API's answer
ScrapeTry(o) ==
    IF o.kind # "json" THEN Threw
    ELSE IF o.data.t # "object" THEN Threw
    ELSE Returned(MapArticles(o.data.articles))

\* a catch block that lets the error out
ScrapeCatchRethrow == Threw

\* the catch block of scrapeNews: return []
ScrapeCatch == Returned(<<>>)

ScrapeNews(o) == IF ScrapeTry(o).threw THEN ScrapeCatch ELSE ScrapeTry(o)

ScrapeLogs(o) ==
    (IF o.kind = "json" /\ o.data.t = "object"
     THEN <<LogLine("info", "Found articles from GNews", DecStr(FoundCount(o.data)))>>
     ELSE <<>>)
    \o (IF ScrapeTry(o).threw
        THEN <<LogLine("error", "Error fetching news:", <<>>)>>
        ELSE <<>>)

\* --- the chat-completion answers ---

Rejects == [kind |-> "throw", content |-> JsUndefined]
NoChoicesField == [kind |-> "malformed", content |-> JsUndefined]
NoFirstChoice == [kind |-> "nochoice", content |-> JsUndefined]
NoMessage == [kind |-> "nomessage", content |-> JsUndefined]
Completion(content) == [kind |-> "ok", content |-> content]

PipeCompletions ==
    {Rejects, NoChoicesField, Completion(JsNull), Completion(Str(<<" ">>)),
     Completion(Str(<<" ", "S", "\n">>))}

\* the content taken as it is, the .trim() forgotten
TrimmedContentUntrimmed(c) ==
    IF c.kind = "ok" /\ c.content.t = "string"
    THEN c.content ELSE JsUndefined

\* x.choices[0]?.message?.content?.trim()
TrimmedContent(c) ==
    IF c.kind = "ok" /\ c.content.t = "string"
    THEN Str(Trim(c.content.s)) ELSE JsUndefined

\* a call whose rejection is swallowed into an empty text
CompletionResultSwallow(c) ==
    IF c.kind \in {"throw", "malformed"} THEN Returned(<<>>)
    ELSE Returned(OrEmpty(TrimmedContent(c)))

\* await create(...) followed by  x.choices[0]?.message?.content?.trim() || ''
\* (a rejected call or a reply without a choices array throws)
CompletionResult(c) ==
    IF c.kind \in {"throw", "malformed"} THEN Threw
    ELSE Returned(OrEmpty(TrimmedContent(c)))

SummaryValue(articlesText, summaryText) ==
    [t |-> "object", articlesText |-> articlesText, summaryText |-> summaryText]

\* --- main ---

OutputBegin ==
    <<"\n", " ", " ", " ", " ">>
OutputMiddle ==
    <<"\n", "\n", " ", " ", " ", " ">>
OutputEnd ==
    <<"\n", " ", " ", " ", " ">>

\* the template of index.ts:23-27, kept with the two values it interpolates
OutputValue(summary, questionsText) ==
    [t |-> "output",
     text |-> OutputBegin \o summary.summaryText \o OutputMiddle
                 \o questionsText \o OutputEnd,
     summaryText |-> summary.summaryText,
     questionsText |-> questionsText]

\* a catch block that starts the failed stage again
MainCatchRetry(r, lg, stage) ==
    /\ pc' = Upd(pc, r, IF stage = "summary" THEN "fetched"
                        ELSE IF stage = "questions" THEN "summarized"
                        ELSE "failed")
    /\ logs' = Upd(logs, r, lg \o <<LogLine("error", "Error starting application:", stage)>>)
    /\ exitCode' = exitCode

\* catch (error) { logger.error(...); process.exit(1); }
MainCatch(r, lg, stage) ==
    /\ pc' = Upd(pc, r, "failed")
    /\ logs' = Upd(logs, r, lg \o <<LogLine("error", "Error starting application:", stage)>>)
    /\ exitCode' = Upd(exitCode, r, ExitCode(1))

\* the summary main hands to generateQuestions, taken from whichever run
\* summarised (a value kept outside the run)
SummaryArgShared(r) ==
    LET done == {q \in Runs : summaryRes[q].t = "object"} IN
    summaryRes[CHOOSE q \in done : \A p \in done :
                   Len(summaryRes[p].articlesText) <= Len(summaryRes[q].articlesText)]

\* the argument of generateQuestions(summary) in main
SummaryArg(r) == summaryRes[r]

PipeInit == \E e \in Envs : PipeIdle(e)

StartLogs == <<LogLine("info", "Starting True AI Builders...", <<>>)>>

\* main up to the first await: construction, then scrapeNews up to fetch(url)
Start(r) ==
    /\ pc[r] = "start"
    /\ \/ LET service == ConstructService(env) IN
          /\ svc' = Upd(svc, r, service)
          /\ logs' = Upd(logs, r, StartLogs \o ConstructorLogs(service)
                 \o <<LogLine("info", "All services initialized", <<>>),
                      LogLine("info", "Scraping news from GNews...", <<>>),
                      LogLine("console", "API URL:", service.gnewsApiKey.s)>>)
          /\ events' = Upd(events, r, <<<<"issue", "fetch">>>>)
          /\ calls' = Upd(calls, r, <<FetchRequest(service)>>)
          /\ pc' = Upd(pc, r, "awaitFetch")
          /\ UNCHANGED exitCode
       \/ /\ ClientMayThrow(env)
          /\ MainCatch(r, StartLogs, "constructor")
          /\ UNCHANGED <<svc, events, calls>>
    /\ UNCHANGED <<env, articles, summaryRes, questions, output, fetchIn, sumIn, qIn>>
    /\ UNCHANGED <<normVars, fmtVars, compVars>>

\* scrapeNews hands its result to main's await
ScrapeDone(r, o, lg) ==
    LET res == ScrapeNews(o) IN
    /\ fetchIn' = Upd(fetchIn, r, o)
    /\ IF res.threw
       THEN /\ MainCatch(r, lg, "fetch")
            /\ UNCHANGED articles
       ELSE /\ articles' = Upd(articles, r, Array(res.value))
            /\ pc' = Upd(pc, r, "fetched")
            /\ logs' = Upd(logs, r, lg)
            /\ UNCHANGED exitCode

\* await fetch(url) settles: rejected, or a response whose ok flag is tested
FetchSettle(r) ==
    /\ pc[r] = "awaitFetch"
    /\ \E h \in HeaderOutcomes :
          /\ events' = Upd(events, r, Append(events[r], <<"settle", "fetch">>))
          /\ IF h = "ok"
             THEN /\ pc' = Upd(pc, r, "awaitBody")
                  /\ UNCHANGED <<fetchIn, articles, logs, exitCode>>
             ELSE ScrapeDone(r, FetchFailure(h), logs[r] \o ScrapeLogs(FetchFailure(h)))
    /\ UNCHANGED <<env, svc, summaryRes, questions, output, calls, sumIn, qIn>>
    /\ UNCHANGED <<normVars, fmtVars, compVars>>

\* await response.json() settles: rejected, or the parsed body is mapped
BodySettle(r) ==
    /\ pc[r] = "awaitBody"
    /\ \E o \in BodyOutcomes :
          /\ events' = Upd(events, r, Append(events[r], <<"settle", "body">>))
          /\ ScrapeDone(r, o, logs[r] \o ScrapeLogs(o))
    /\ UNCHANGED <<env, svc, summaryRes, questions, output, calls, sumIn, qIn>>
    /\ UNCHANGED <<normVars, fmtVars, compVars>>

\* generateSummary up to its await
SummaryIssue(r) ==
    /\ pc[r] = "fetched"
    /\ calls' = Upd(calls, r,
           Append(calls[r], SummaryRequest(svc[r], ArticlesText(articles[r].s))))
    /\ events' = Upd(events, r, Append(events[r], <<"issue", "summary">>))
    /\ pc' = Upd(pc, r, "awaitSummary")
    /\ UNCHANGED <<env, svc, articles, summaryRes, questions, output, exitCode,
                   logs, fetchIn, sumIn, qIn>>
    /\ UNCHANGED <<normVars, fmtVars, compVars>>

\* the summary call settles; generateSummary returns { articlesText, summaryText }
SummarySettle(r) ==
    /\ pc[r] = "awaitSummary"
    /\ \E c \in PipeCompletions :
          LET res == CompletionResult(c) IN
          /\ sumIn' = Upd(sumIn, r, c)
          /\ events' = Upd(events, r, Append(events[r], <<"settle", "summary">>))
          /\ IF res.threw
             THEN /\ MainCatch(r, logs[r], "summary")
                  /\ UNCHANGED summaryRes
             ELSE /\ summaryRes' = Upd(summaryRes, r,
                         SummaryValue(ArticlesText(articles[r].s), res.value))
                  /\ pc' = Upd(pc, r, "summarized")
                  /\ UNCHANGED <<logs, exitCode>>
    /\ UNCHANGED <<env, svc, articles, questions, output, calls, fetchIn, qIn>>
    /\ UNCHANGED <<normVars, fmtVars, compVars>>

\* generateQuestions up to its await
QuestionsIssue(r) ==
    /\ pc[r] = "summarized"
    /\ calls' = Upd(calls, r, Append(calls[r], QuestionsRequest(svc[r], SummaryArg(r))))
    /\ events' = Upd(events, r, Append(events[r], <<"issue", "questions">>))
    /\ pc' = Upd(pc, r, "awaitQuestions")
    /\ UNCHANGED <<env, svc, articles, summaryRes, questions, output, exitCode,
                   logs, fetchIn, sumIn, qIn>>
    /\ UNCHANGED <<normVars, fmtVars, compVars>>

\* the questions call settles; generateQuestions returns questionsText
QuestionsSettle(r) ==
    /\ pc[r] = "awaitQuestions"
    /\ \E c \in PipeCompletions :
          LET res == CompletionResult(c) IN
          /\ qIn' = Upd(qIn, r, c)
          /\ events' = Upd(events, r, Append(events[r], <<"settle", "questions">>))
          /\ IF res.threw
             THEN /\ MainCatch(r, logs[r], "questions")
                  /\ UNCHANGED questions
             ELSE /\ questions' = Upd(questions, r, Str(res.value))
                  /\ pc' = Upd(pc, r, "questioned")
                  /\ UNCHANGED <<logs, exitCode>>
    /\ UNCHANGED <<env, svc, articles, summaryRes, output, calls, fetchIn, sumIn>>
    /\ UNCHANGED <<normVars, fmtVars, compVars>>

\* the rest of main: compose the output and log it
Emit(r) ==
    /\ pc[r] = "questioned"
    /\ output' = Upd(output, r, OutputValue(summaryRes[r], questions[r].s))
    /\ logs' = Upd(logs, r, logs[r]
           \o <<LogLine("info", "output", OutputValue(summaryRes[r], questions[r].s).text),
                LogLine("info", "Ready to implement logic!", <<>>)>>)
    /\ pc' = Upd(pc, r, "done")
    /\ UNCHANGED <<env, svc, articles, summaryRes, questions, exitCode, events,
                   calls, fetchIn, sumIn, qIn>>
    /\ UNCHANGED <<normVars, fmtVars, compVars>>

Init == PipeInit /\ NormIdle /\ FmtIdle /\ CompIdle

Next ==
    \/ \E r \in Runs : Start(r)
    \/ \E r \in Runs : FetchSettle(r)
    \/ \E r \in Runs : BodySettle(r)
    \/ \E r \in Runs : SummaryIssue(r)
    \/ \E r \in Runs : SummarySettle(r)
    \/ \E r \in Runs : QuestionsIssue(r)
    \/ \E r \in Runs : QuestionsSettle(r)
    \/ \E r \in Runs : Emit(r)

Spec == Init /\ [][Next]_vars

----------------------------------------------------------------------------
(* One chat-completion answer read by generateSummary and then by          *)
(* generateQuestions.                                                      *)

ContentChars == {" ", "\n", "\t", "S"}

RECURSIVE ContentStrings(_)
ContentStrings(n) ==
    IF n = 0 THEN {<<>>}
    ELSE LET shorter == ContentStrings(n - 1) IN
         shorter \cup {Append(s, ch) : s \in shorter, ch \in ContentChars}

\* answers of chat.completions.create: rejected, without a choices array,
\* without a first choice, without a message, or with a content
Completions ==
    {Rejects, NoChoicesField, NoFirstChoice, NoMessage, Completion(JsNull)}
        \cup {Completion(Str(s)) : s \in ContentStrings(MaxContentLen)}

\* the prompt body generateSummary was called with
SampleArticlesText == ArticlesText(MapArticles(Array(<<PipeArticle1, PipeArticle2>>)))

\* generateSummary from its await on: return { articlesText, summaryText }
GenerateSummaryResult(articlesText, c) ==
    IF CompletionResult(c).threw THEN Threw
    ELSE Returned(SummaryValue(articlesText, CompletionResult(c).value))

\* generateQuestions from its await on: return questionsText
GenerateQuestionsResult(c) == CompletionResult(c)

CompInit ==
    /\ cIn \in Completions
    /\ cSummary = [threw |-> FALSE, value |-> None]
    /\ cQuestions = [threw |-> FALSE, value |-> <<>>]
    /\ cStage = "completion"
    /\ PipeIdle(NoEnv)
    /\ NormIdle
    /\ FmtIdle

SummaryReturns ==
    /\ cStage = "completion"
    /\ cSummary' = GenerateSummaryResult(SampleArticlesText, cIn)
    /\ cStage' = "summary"
    /\ UNCHANGED <<cIn, cQuestions, pipeVars, normVars, fmtVars>>

QuestionsReturns ==
    /\ cStage = "summary"
    /\ cQuestions' = GenerateQuestionsResult(cIn)
    /\ cStage' = "questions"
    /\ UNCHANGED <<cIn, cSummary, pipeVars, normVars, fmtVars>>

CompNext == SummaryReturns \/ QuestionsReturns

SpecCompletion == CompInit /\ [][CompNext]_vars

----------------------------------------------------------------------------
(* Properties of content normalisation (SpecNormalize).                    *)

\* t is one truncation marker: "[", digits, optional whitespace, "chars]"
IsBareMarker(t) ==
    LET n == Len(t) IN
    /\ n >= 8
    /\ t[1] = "["
    /\ t[2] \in Digits
    /\ \A j \in 3..(n - 6) :
          /\ t[j] \in Digits \cup Whitespace
          /\ t[j] \in Digits => t[j - 1] \in Digits
    /\ t[n - 5] = "c" /\ t[n - 4] = "h" /\ t[n - 3] = "a"
    /\ t[n - 2] = "r" /\ t[n - 1] = "s" /\ t[n] = "]"

EndsInMarker(s) == \E k \in 1..Len(s) : IsBareMarker(SubSeq(s, k, Len(s)))

\* s without its last marker and without the whitespace run right before it
WithoutLastMarker(s) ==
    LET k == CHOOSE k \in 1..Len(s) : IsBareMarker(SubSeq(s, k, Len(s)))
        m == CHOOSE m \in 0..(k - 1) :
                 /\ \A j \in (m + 1)..(k - 1) : s[j] \in Whitespace
                 /\ m = 0 \/ s[m] \notin Whitespace
    IN SubSeq(s, 1, m)

Normalized(s) == IF EndsInMarker(s) THEN WithoutLastMarker(s) ELSE s

\* C7 (as stated): normalisation strips a trailing marker, leaves a string
\* without a trailing marker unchanged, and applying it twice gives the same
\* result as applying it once.
C7_Idempotent ==
    /\ nStage \in {"once", "twice"} => nOnce = Normalized(OrEmpty(nIn))
    /\ nStage = "twice" => nTwice = nOnce

\* C7 (amended): normalisation removes exactly the last trailing marker (and
\* the whitespace right before it) and leaves a string that does not end in a
\* marker unchanged; a second application changes the result exactly when the
\* once-normalised string still ends in a marker.
C7_StripsLastMarker ==
    /\ nStage \in {"once", "twice"} => nOnce = Normalized(OrEmpty(nIn))
    /\ nStage = "twice" =>
          /\ nTwice = Normalized(nOnce)
          /\ (nTwice = nOnce) <=> ~EndsInMarker(nOnce)

\* a string ending in two markers has been normalised twice
C7_Witness ==
    /\ nStage = "twice"
    /\ EndsInMarker(OrEmpty(nIn))
    /\ EndsInMarker(nOnce)
    /\ nTwice # nOnce

----------------------------------------------------------------------------
(* Properties of mapping and formatting (SpecFormat).                      *)

IndexLabel ==
    << <<"1">>, <<"2">>, <<"3">>, <<"4">>, <<"5">>, <<"6">>, <<"7">>, <<"8">>,
       <<"9">>, <<"1", "0">> >>

RawRecords == IF fResp.t = "array" THEN fResp.s ELSE <<>>

\* the block the k-th article of fBatch is to appear as
ExpectedBlock(k) ==
    <<"[">> \o IndexLabel[k] \o <<"]", " ">>
        \o TemplateStr(fBatch[k].title) \o <<"\n">>
        \o TemplateStr(fBatch[k].description) \o <<"\n">>
        \o TemplateStr(fBatch[k].content)

\* number of characters of fText before the k-th block
RECURSIVE BlockOffset(_)
BlockOffset(k) ==
    IF k = 1 THEN 0
    ELSE BlockOffset(k - 1) + Len(ExpectedBlock(k - 1)) + 2

\* C6: the k-th record of the response becomes the k-th article of the batch,
\* and sourceText is the blocks of the articles in batch order, the k-th
\* labelled with the 1-based index k and carrying that article's title,
\* description and content; an empty batch gives the empty string.
C6_OrderPreserved ==
    /\ fStage \in {"mapped", "formatted"} =>
          /\ Len(fBatch) = Len(RawRecords)
          /\ \A k \in 1..Len(fBatch) :
                /\ fBatch[k].title = RawRecords[k].title
                /\ fBatch[k].description = RawRecords[k].description
                /\ fBatch[k].content =
                       Str(Normalized(OrEmpty(RawRecords[k].content)))
    /\ fStage = "formatted" =>
          LET n == Len(fBatch) IN
          /\ n = 0 => fText = <<>>
          /\ n > 0 => Len(fText) = BlockOffset(n) + Len(ExpectedBlock(n))
          /\ \A k \in 1..n :
                LET off == BlockOffset(k)
                    len == Len(ExpectedBlock(k))
                IN /\ off + len <= Len(fText)
                   /\ SubSeq(fText, off + 1, off + len) = ExpectedBlock(k)
                   /\ k < n => /\ fText[off + len + 1] = "\n"
                               /\ fText[off + len + 2] = "\n"

\* a response with two different records has been mapped and formatted
C6_Witness ==
    /\ fStage = "formatted"
    /\ Len(fBatch) >= 2
    /\ fBatch[1] # fBatch[2]
    /\ fText # <<>>

----------------------------------------------------------------------------
(* Properties of the pipeline (Spec).                                      *)

HasCall(r, c) == \E i \in 1..Len(calls[r]) : calls[r][i].call = c

EmptyBatch(r) == articles[r].t = "array" /\ articles[r].s = <<>>
NonEmptyBatch(r) == articles[r].t = "array" /\ articles[r].s # <<>>

Emitted(r) == output[r].t = "output"

\* C1 (as stated): with an empty article batch the run issues neither the
\* summary call nor the questions call, and its result has an empty
\* summaryText and an empty questionsText.
C1_EmptyBatchSkipsGeneration ==
    \A r \in Runs :
        EmptyBatch(r) =>
            /\ ~HasCall(r, "summary")
            /\ ~HasCall(r, "questions")
            /\ Emitted(r) => /\ output[r].summaryText = <<>>
                             /\ output[r].questionsText = <<>>

\* C2 (as stated): with a non-empty batch a run that emits output emits a
\* non-empty summaryText together with a non-empty questionsText.
C2_PairedOutput ==
    \A r \in Runs :
        (NonEmptyBatch(r) /\ Emitted(r)) =>
            /\ output[r].summaryText # <<>>
            /\ output[r].questionsText # <<>>

ClientThrew(r) == sumIn[r].kind = "throw" \/ qIn[r].kind = "throw"

LastLog(r) == logs[r][Len(logs[r])]

\* C3: when the LLM client throws in the summary call or in the questions
\* call, the run is Failed, the cause is logged as an error, the exit code is
\* non-zero, and neither summaryText nor questionsText has been emitted.
C3_ThrowFailsWithoutOutput ==
    \A r \in Runs :
        ClientThrew(r) =>
            /\ pc[r] = "failed"
            /\ LastLog(r).level = "error"
            /\ LastLog(r).arg \in {"summary", "questions"}
            /\ exitCode[r].t = "exit" /\ exitCode[r].s # 0
            /\ ~Emitted(r)
            /\ \A i \in 1..Len(logs[r]) : logs[r][i].msg # "output"

\* the summary call gave a text and the questions call threw
C3_Witness ==
    \E r \in Runs :
        /\ sumIn[r].kind = "ok"
        /\ summaryRes[r].t = "object"
        /\ summaryRes[r].summaryText # <<>>
        /\ qIn[r].kind = "throw"
        /\ pc[r] = "failed"

FetchStageFailed(r) ==
    \/ fetchIn[r].kind \in {"neterr", "status", "bodyerr"}
    \/ fetchIn[r].kind = "json" /\ fetchIn[r].data.t # "object"

\* C4: a failure of the fetch stage (request rejected, status not ok, body
\* unreadable or unusable) gives the empty batch, and the run is never Failed
\* because of it: a Failed run names a later stage as the cause.
C4_FetchFailureGivesEmptyBatch ==
    \A r \in Runs :
        /\ FetchStageFailed(r) =>
              /\ EmptyBatch(r)
              /\ pc[r] \in {"fetched", "awaitSummary", "summarized",
                            "awaitQuestions", "questioned", "done", "failed"}
              /\ pc[r] = "failed" =>
                    /\ sumIn[r].kind # "none"
                    /\ LastLog(r).arg \in {"summary", "questions"}
        /\ (pc[r] = "failed" /\ fetchIn[r].kind # "none") =>
              LastLog(r).arg \in {"summary", "questions"}

\* a run whose fetch got a non-ok status went on to its end
C4_Witness ==
    \E r \in Runs :
        /\ fetchIn[r].kind = "status"
        /\ articles[r].s = <<>>
        /\ pc[r] = "done"

\* C5 (as stated): when the summary completion has no content, summaryText is
\* the empty string and the questions call is not issued.
C5_EmptySummarySuppressesQuestions ==
    \A r \in Runs :
        (sumIn[r].kind = "ok" /\ sumIn[r].content.t # "string") =>
            /\ summaryRes[r].t = "object"
            /\ summaryRes[r].summaryText = <<>>
            /\ ~HasCall(r, "questions")

\* what scrapeNews, generateSummary and generateQuestions give a run that
\* executes alone and is answered o, cs and cq
SoloBatch(o) == ScrapeNews(o).value
SoloSummary(o, cs) ==
    SummaryValue(ArticlesText(SoloBatch(o)), CompletionResult(cs).value)
SoloQuestions(cq) == CompletionResult(cq).value

\* the components of the state that belong to run q
RunState(q) ==
    <<pc[q], svc[q], articles[q], summaryRes[q], questions[q], output[q],
      exitCode[q], logs[q], events[q], calls[q], fetchIn[q], sumIn[q], qIn[q]>>

RunStateNext(q) ==
    <<pc'[q], svc'[q], articles'[q], summaryRes'[q], questions'[q], output'[q],
      exitCode'[q], logs'[q], events'[q], calls'[q], fetchIn'[q], sumIn'[q], qIn'[q]>>

RunsIndependentNow ==
    \A r \in Runs :
        /\ svc[r].t = "object" => svc[r] = ConstructService(env)
        /\ articles[r].t = "array" => articles[r].s = SoloBatch(fetchIn[r])
        /\ Len(calls[r]) >= 2 =>
              calls[r][2].user = ArticlesText(SoloBatch(fetchIn[r]))
        /\ summaryRes[r].t = "object" =>
              summaryRes[r] = SoloSummary(fetchIn[r], sumIn[r])
        /\ Len(calls[r]) >= 3 =>
              calls[r][3].user = QuestionsUserPrompt(SoloSummary(fetchIn[r], sumIn[r]))
        /\ questions[r].t = "string" => questions[r].s = SoloQuestions(qIn[r])
        /\ Emitted(r) =>
              output[r] = OutputValue(SoloSummary(fetchIn[r], sumIn[r]),
                                      SoloQuestions(qIn[r]))

StepTouchesOneRun ==
    /\ env' = env
    /\ \E r \in Runs : \A q \in Runs \ {r} : RunStateNext(q) = RunState(q)
    /\ \A r \in Runs : svc[r].t = "object" => svc'[r] = svc[r]

\* C8: runs interleaved in any order share no mutable state: every step
\* changes the state of one run only and never the environment or a
\* constructed service, and each run's requests, batch, summary, questions
\* and output are what that run gives when executed alone on the answers it
\* received.
C8_RunsIndependent == []RunsIndependentNow /\ [][StepTouchesOneRun]_vars

\* two runs with different batches are in flight at the same time
C8_Witness ==
    /\ pc["r1"] = "awaitQuestions"
    /\ pc["r2"] = "awaitSummary"
    /\ NonEmptyBatch("r1")
    /\ EmptyBatch("r2")
    /\ summaryRes["r1"].summaryText # <<>>

\* C9: two generateQuestions calls given the same SummaryResult send the same
\* request, and answered alike (a deterministic model) they end alike, with
\* the same questions text.
C9_SameSummarySameQuestions ==
    \A r1, r2 \in Runs :
        (/\ Len(calls[r1]) >= 3
         /\ Len(calls[r2]) >= 3
         /\ summaryRes[r1] = summaryRes[r2]) =>
            /\ calls[r1][3] = calls[r2][3]
            /\ (qIn[r1].kind # "none" /\ qIn[r1] = qIn[r2]) =>
                  /\ questions[r1] = questions[r2]
                  /\ (pc[r1] = "failed") <=> (pc[r2] = "failed")

\* both runs fed the same non-trivial summary and got the same answer
C9_Witness ==
    /\ summaryRes["r1"].t = "object"
    /\ summaryRes["r1"] = summaryRes["r2"]
    /\ summaryRes["r1"].articlesText # <<>>
    /\ summaryRes["r1"].summaryText # <<>>
    /\ qIn["r1"].kind = "ok"
    /\ qIn["r1"] = qIn["r2"]
    /\ questions["r1"].t = "string"
    /\ questions["r1"].s # <<>>
    /\ questions["r2"].t = "string"

CallOrder == <<"fetch", "summary", "questions">>

IsIssue(e) == e[1] = "issue"

Issued(r) == SelectSeq(events[r], IsIssue)

\* C10: a run issues its external calls in the order fetch, summary,
\* questions, each at most once, each right after the previous call settled;
\* the summary call carries the fetched batch and the questions call the
\* articlesText and summaryText of the run's own summary stage.
C10_CallsInOrderOnce ==
    \A r \in Runs :
        /\ Len(Issued(r)) <= 3
        /\ Len(calls[r]) = Len(Issued(r))
        /\ \A i \in 1..Len(Issued(r)) :
              /\ Issued(r)[i][2] = CallOrder[i]
              /\ calls[r][i].call = CallOrder[i]
        /\ \A i \in 2..Len(events[r]) :
              IsIssue(events[r][i]) =>
                  /\ events[r][i - 1][1] = "settle"
                  /\ \E k \in 2..3 :
                        /\ events[r][i][2] = CallOrder[k]
                        /\ \E j \in 1..(i - 1) :
                              events[r][j] = <<"settle", CallOrder[k - 1]>>
        /\ Len(calls[r]) >= 2 =>
              /\ articles[r].t = "array"
              /\ calls[r][2].user = ArticlesText(articles[r].s)
        /\ Len(calls[r]) >= 3 =>
              /\ summaryRes[r].t = "object"
              /\ calls[r][3].user =
                     PromptArticlesLabel \o summaryRes[r].articlesText
                         \o PromptSummaryLabel \o summaryRes[r].summaryText
                         \o PromptEnd

\* a run has made all three calls and ended; another failed in its summary call
C10_Witness ==
    \E r, q \in Runs :
        /\ pc[r] = "done"
        /\ Len(calls[r]) = 3
        /\ NonEmptyBatch(r)
        /\ pc[q] = "failed"
        /\ sumIn[q].kind = "throw"
        /\ Len(calls[q]) = 2

----------------------------------------------------------------------------
(* Properties of the reading of a completion (SpecCompletion).             *)

\* the answer came back without a throw and carries no content
NoContent(c) ==
    \/ c.kind \in {"nochoice", "nomessage"}
    \/ /\ c.kind = "ok"
       /\ \/ c.content.t # "string"
          \/ \A i \in 1..Len(c.content.s) : c.content.s[i] \in Whitespace

NoOuterWhitespace(s) ==
    s # <<>> => (s[1] \notin Whitespace /\ s[Len(s)] \notin Whitespace)

\* C11: for an answer without content (no first choice, no message, null,
\* empty or whitespace-only content) generateSummary returns an empty
\* summaryText and generateQuestions the empty string, neither throwing; and
\* a returned text never starts or ends with whitespace.
C11_NoContentGivesEmptyText ==
    /\ cStage \in {"summary", "questions"} =>
          /\ NoContent(cIn) =>
                /\ ~cSummary.threw
                /\ cSummary.value.summaryText = <<>>
          /\ ~cSummary.threw => NoOuterWhitespace(cSummary.value.summaryText)
    /\ cStage = "questions" =>
          /\ NoContent(cIn) =>
                /\ ~cQuestions.threw
                /\ cQuestions.value = <<>>
          /\ ~cQuestions.threw => NoOuterWhitespace(cQuestions.value)

\* a content of several whitespace characters has been read by both generators
C11_Witness ==
    /\ cStage = "questions"
    /\ cIn.kind = "ok"
    /\ cIn.content.t = "string"
    /\ Len(cIn.content.s) >= 2
    /\ NoContent(cIn)
    /\ cSummary.value.summaryText = <<>>
    /\ cQuestions.value = <<>>

----------------------------------------------------------------------------
(* Properties of construction (Spec).                                      *)

Warned(r, msg) ==
    \E i \in 1..Len(logs[r]) : logs[r][i].level = "warn" /\ logs[r][i].msg = msg

Absent(v) == v.t # "string"

\* C12 (as stated): construction with a credential absent never aborts
\* startup; a warning is logged for GNEWS_API_KEY exactly when it is absent,
\* and a warning is logged for OPENAI_API_KEY exactly when it is absent.
C12_AbsentCredentialWarns ==
    \A r \in Runs :
        /\ ~(pc[r] = "failed" /\ LastLog(r).arg = "constructor")
        /\ svc[r].t = "object" =>
              /\ Warned(r, "GNEWS_API_KEY not found in environment variables")
                    <=> Absent(env.GNEWS_API_KEY)
              /\ Warned(r, "OPENAI_API_KEY not found in environment variables")
                    <=> Absent(env.OPENAI_API_KEY)

====
